---- MODULE Spec2Model ----
(***************************************************************************)
(* binance-orderbook: the OrderBook of structs.rs, the menu task of        *)
(* menu.rs that validates and applies manually entered JSON under the book *)
(* lock, and the websocket client and queue consumer of process.rs.        *)
(*                                                                         *)
(* f64 prices and quantities are modelled by small integers; the decimal   *)
(* strings of the wire format are modelled by the strings of NumStrs and   *)
(* converted by ParseF64.                                                  *)
(***************************************************************************)
EXTENDS Integers, Sequences, FiniteSets, TLC

\* ------------------------------------------------------------------ bounds
\* Update ids range over 0..MaxId.
MaxId == 2
\* Most price levels (bids and asks together) of a directly built depth update.
MaxLevels == 2

Ids == 0..MaxId
\* Prices and quantities of directly built updates.
Prices == {1, 2}
Qtys == {-1, 0, 1, 2}

\* ---------------------------------------------------------- wire strings
\* Decimal strings as they occur in a payload; "x" and "" are no numbers,
\* "1.0" and "1" are two spellings of one number.
NumStrs == {"-1", "0", "1", "1.0", "2", "x", ""}

\* str::parse::<f64>() on the strings of NumStrs.
StrParse(value) ==
    CASE value = "-1"  -> [ok |-> TRUE, val |-> -1]
      [] value = "0"   -> [ok |-> TRUE, val |-> 0]
      [] value = "1"   -> [ok |-> TRUE, val |-> 1]
      [] value = "1.0" -> [ok |-> TRUE, val |-> 1]
      [] value = "2"   -> [ok |-> TRUE, val |-> 2]
      [] OTHER         -> [ok |-> FALSE, val |-> 0]

\* helper.rs parse_f64: the parsed value, or a ParseError naming the field.
ParseF64(value, name) ==
    IF StrParse(value).ok
    THEN [ok |-> TRUE, val |-> StrParse(value).val, err |-> "Ok"]
    ELSE [ok |-> FALSE, val |-> 0, err |-> "ParseError"]

\* b[i].parse().unwrap_or_default(): an unparsable string becomes 0.0.
ParseOrDefault(value) ==
    IF StrParse(value).ok THEN StrParse(value).val ELSE 0

\* str::to_uppercase on the symbols that are typed at start-up.
ToUppercase(s) ==
    CASE s = "bnbusdt" -> "BNBUSDT"
      [] s = "ethusdt" -> "ETHUSDT"
      [] OTHER         -> s

\* ------------------------------------------------------------- OrderBook
EmptyMap == [p \in {} |-> 0]

\* BTreeMap::insert
MapInsert(m, price, qty) ==
    [p \in (DOMAIN m) \cup {price} |-> IF p = price THEN qty ELSE m[p]]

\* BTreeMap::remove
MapRemove(m, price) == [p \in (DOMAIN m) \ {price} |-> m[p]]

\* OrderBook::new
NewOrderBook(symbol) ==
    [symbol |-> symbol, last_update_id |-> 0, bids |-> EmptyMap, asks |-> EmptyMap]

\* SetLevel with the test written qty >= 0.0: a zero quantity is stored.
SetLevelNonNegative(m, price, qty) ==
    IF qty >= 0 THEN MapInsert(m, price, qty) ELSE MapRemove(m, price)

\* The statement repeated in update_book_ticker and update_depth:
\* if qty > 0.0 { map.insert(price, qty) } else { map.remove(&price) }
SetLevel(m, price, qty) ==
    IF qty > 0 THEN MapInsert(m, price, qty) ELSE MapRemove(m, price)

\* The assignment of the update id left out.
SetLastUpdateIdKeep(book, id) == book

\* self.last_update_id = data.last_update_id
SetLastUpdateId(book, id) == [book EXCEPT !.last_update_id = id]

\* update_book_ticker clearing each side before it writes the one level.
TickerLevelsReplace(book, data) ==
    [book EXCEPT !.bids = SetLevel(EmptyMap, data.bid_price, data.bid_qty),
                 !.asks = SetLevel(EmptyMap, data.ask_price, data.ask_qty)]

\* The bid and ask statements of update_book_ticker.
TickerLevels(book, data) ==
    [book EXCEPT !.bids = SetLevel(book.bids, data.bid_price, data.bid_qty),
                 !.asks = SetLevel(book.asks, data.ask_price, data.ask_qty)]

\* update_book_ticker writing the bid into asks and the ask into bids.
UpdateBookTickerCrossed(book, data) ==
    [SetLastUpdateId(book, data.last_update_id)
        EXCEPT !.bids = SetLevel(book.bids, data.ask_price, data.ask_qty),
               !.asks = SetLevel(book.asks, data.bid_price, data.bid_qty)]

\* update_book_ticker taking the ticker for the best of the book: bids above
\* its bid price and asks below its ask price are dropped.
UpdateBookTickerEvict(book, data) ==
    TickerLevels(
        [SetLastUpdateId(book, data.last_update_id)
            EXCEPT !.bids = [p \in { q \in DOMAIN book.bids : q <= data.bid_price }
                                |-> book.bids[p]],
                   !.asks = [p \in { q \in DOMAIN book.asks : q >= data.ask_price }
                                |-> book.asks[p]]],
        data)

\* OrderBook::update_book_ticker
UpdateBookTicker(book, data) ==
    TickerLevels(SetLastUpdateId(book, data.last_update_id), data)

\* The loop running over the levels back to front: the first entry of a
\* price wins.
RECURSIVE ApplyLevelsReversed(_, _)
ApplyLevelsReversed(m, levels) ==
    IF levels = <<>> THEN m
    ELSE SetLevel(ApplyLevelsReversed(m, Tail(levels)), Head(levels)[1], Head(levels)[2])

\* for (price, qty) in levels { ... }: the levels in order, front to back.
RECURSIVE ApplyLevels(_, _)
ApplyLevels(m, levels) ==
    IF levels = <<>> THEN m
    ELSE ApplyLevels(SetLevel(m, Head(levels)[1], Head(levels)[2]), Tail(levels))

\* The bid loop of update_depth.
DepthBids(book, data) == [book EXCEPT !.bids = ApplyLevels(book.bids, data.bids)]

\* The ask loop of update_depth.
DepthAsks(book, data) == [book EXCEPT !.asks = ApplyLevels(book.asks, data.asks)]

\* OrderBook::update_depth
UpdateDepth(book, data) ==
    DepthAsks(DepthBids(SetLastUpdateId(book, data.last_update_id), data), data)

MaxOf(S) == CHOOSE x \in S : \A y \in S : y <= x
MinOf(S) == CHOOSE x \in S : \A y \in S : x <= y

NoLevel == <<0, 0>>

\* get_best_bid_ask taking the first entry of both maps: the lowest bid.
GetBestBidAskFirstBid(book) ==
    IF DOMAIN book.bids # {} /\ DOMAIN book.asks # {}
    THEN [some |-> TRUE,
          bid |-> <<MinOf(DOMAIN book.bids), book.bids[MinOf(DOMAIN book.bids)]>>,
          ask |-> <<MinOf(DOMAIN book.asks), book.asks[MinOf(DOMAIN book.asks)]>>]
    ELSE [some |-> FALSE, bid |-> NoLevel, ask |-> NoLevel]

\* OrderBook::get_best_bid_ask: the last bid and the first ask of the two
\* ordered maps, or None.
GetBestBidAsk(book) ==
    IF DOMAIN book.bids # {} /\ DOMAIN book.asks # {}
    THEN [some |-> TRUE,
          bid |-> <<MaxOf(DOMAIN book.bids), book.bids[MaxOf(DOMAIN book.bids)]>>,
          ask |-> <<MinOf(DOMAIN book.asks), book.asks[MinOf(DOMAIN book.asks)]>>]
    ELSE [some |-> FALSE, bid |-> NoLevel, ask |-> NoLevel]

\* get_volume_at_price looking in asks before bids.
GetVolumeAtPriceAsksFirst(book, price) ==
    IF price \in DOMAIN book.asks THEN book.asks[price]
    ELSE IF price \in DOMAIN book.bids THEN book.bids[price]
    ELSE 0

\* OrderBook::get_volume_at_price
GetVolumeAtPrice(book, price) ==
    IF price \in DOMAIN book.bids THEN book.bids[price]
    ELSE IF price \in DOMAIN book.asks THEN book.asks[price]
    ELSE 0

\* is_symbol_same comparing without regard to case.
IsSymbolSameIgnoreCase(book, symbol) ==
    IF ~(ToUppercase(book.symbol) = ToUppercase(symbol)) THEN "DifferentSymbol" ELSE "Ok"

\* OrderBook::is_symbol_same
IsSymbolSame(book, symbol) ==
    IF ~(book.symbol = symbol) THEN "DifferentSymbol" ELSE "Ok"

\* is_update_sequential with > for >=: the id just applied passes again.
IsUpdateSequentialOrEqual(book, last_update_id) ==
    IF book.last_update_id > last_update_id THEN "UpdateIdOutdated" ELSE "Ok"

\* OrderBook::is_update_sequential
IsUpdateSequential(book, last_update_id) ==
    IF book.last_update_id >= last_update_id THEN "UpdateIdOutdated" ELSE "Ok"

\* BookTickerUpdate::new
NewBookTickerUpdate(id, bid_price, bid_qty, ask_price, ask_qty) ==
    [last_update_id |-> id, bid_price |-> bid_price, bid_qty |-> bid_qty,
     ask_price |-> ask_price, ask_qty |-> ask_qty]

\* DepthUpdate::new
NewDepthUpdate(id, bids, asks) ==
    [last_update_id |-> id, bids |-> bids, asks |-> asks]

NoTicker == NewBookTickerUpdate(0, 0, 0, 0, 0)

\* from_reader converting as the depth conversion does: a string that is no
\* number becomes 0.0 and the conversion succeeds.
TickerFromReaderOrDefault(reader) ==
    [ok |-> TRUE, err |-> "Ok",
     update |-> NewBookTickerUpdate(reader.u,
                    ParseOrDefault(reader.b), ParseOrDefault(reader.B),
                    ParseOrDefault(reader.a), ParseOrDefault(reader.A))]

\* BookTickerUpdate::from_reader: the four fields in the order bid_price,
\* bid_qty, ask_price, ask_qty; the first that fails ends the conversion.
TickerFromReader(reader) ==
    LET bp == ParseF64(reader.b, "bid_price")
        bq == ParseF64(reader.B, "bid_qty")
        ap == ParseF64(reader.a, "ask_price")
        aq == ParseF64(reader.A, "ask_qty")
    IN  IF bp.ok /\ bq.ok /\ ap.ok /\ aq.ok
        THEN [ok |-> TRUE, err |-> "Ok",
              update |-> NewBookTickerUpdate(reader.u, bp.val, bq.val, ap.val, aq.val)]
        ELSE [ok |-> FALSE, err |-> "ParseError", update |-> NoTicker]

\* The map over the [price, qty] string pairs of DepthUpdate::from_reader.
ParseLevels(levels) ==
    [i \in 1..Len(levels) |->
        <<ParseOrDefault(levels[i][1]), ParseOrDefault(levels[i][2])>>]

\* from_reader leaving out the pairs with a string that is no number.
DepthFromReaderSkip(reader) ==
    NewDepthUpdate(reader.lastUpdateId,
        ParseLevels(SelectSeq(reader.bids,
            LAMBDA l : StrParse(l[1]).ok /\ StrParse(l[2]).ok)),
        ParseLevels(SelectSeq(reader.asks,
            LAMBDA l : StrParse(l[1]).ok /\ StrParse(l[2]).ok)))

\* DepthUpdate::from_reader
DepthFromReader(reader) ==
    NewDepthUpdate(reader.lastUpdateId, ParseLevels(reader.bids), ParseLevels(reader.asks))


\* -------------------------------------------------------------- payloads
\* A JSON payload is modelled by the set of keys it carries and their values.
\* serde ignores keys a reader struct does not name.
TickerKeys == {"u", "s", "b", "B", "a", "A"}
DepthKeys == {"lastUpdateId", "bids", "asks"}

\* serde_json::from_str::<BookTickerUpdateReader>(..).is_ok()
IsTickerJson(json) == TickerKeys \subseteq json.keys

\* serde_json::from_str::<DepthUpdateReader>(..).is_ok()
IsDepthJson(json) == DepthKeys \subseteq json.keys

TickerJson(u, s, b, B, a, A) ==
    [keys |-> TickerKeys, u |-> u, s |-> s, b |-> b, B |-> B, a |-> a, A |-> A]

DepthJson(id, bids, asks) ==
    [keys |-> DepthKeys, lastUpdateId |-> id, bids |-> bids, asks |-> asks]

\* A depth payload that also names the symbol of the stream it was taken from.
DepthJsonOf(s, id, bids, asks) ==
    [keys |-> DepthKeys \cup {"s"}, s |-> s, lastUpdateId |-> id,
     bids |-> bids, asks |-> asks]

OtherJson == [keys |-> {"e"}]

\* A ticker payload cut short: the ask fields are missing.
PartialJson ==
    [keys |-> {"u", "s", "b", "B"}, u |-> 1, s |-> "BNBUSDT", b |-> "1", B |-> "1"]

\* A payload that carries the keys of both shapes: a ticker of (1, 1, 2, 1)
\* and a depth batch with the bid (2, 2).
BothJson(u, s) ==
    [keys |-> TickerKeys \cup DepthKeys,
     u |-> u, s |-> s, b |-> "1", B |-> "1", a |-> "2", A |-> "1",
     lastUpdateId |-> u, bids |-> << <<"2", "2">> >>, asks |-> <<>>]

\* Symbols typed at start-up (main.rs reads one line) and symbols on the wire.
StartSymbols == {"bnbusdt", "ethusdt"}
WireSymbols == {"BNBUSDT", "ETHUSDT", "bnbusdt"}

\* The (b, B, a, A) strings of the tickers entered in the whole-program run.
TickerStrs ==
    { <<"1", "1", "2", "1">>, <<"1", "2", "2", "1">>,
      <<"1", "0", "2", "-1">>, <<"1", "x", "2", "1">> }

\* The (bids, asks) string batches of the depth updates entered there.
DepthStrs ==
    { << <<>>, <<>> >>,
      << << <<"1", "2">> >>, << <<"2", "1">> >> >>,
      << << <<"1", "1">>, <<"1", "0">> >>, <<>> >> }

JsonInputs ==
    { TickerJson(u, s, t[1], t[2], t[3], t[4]) :
        u \in Ids, s \in WireSymbols, t \in TickerStrs }
    \cup { DepthJson(u, d[1], d[2]) : u \in Ids, d \in DepthStrs }
    \cup { DepthJsonOf("ETHUSDT", u, << <<"1", "1">> >>, <<>>) : u \in Ids }
    \cup { OtherJson, PartialJson }
    \cup { BothJson(u, s) : u \in Ids, s \in {"BNBUSDT", "ETHUSDT"} }

\* ----------------------------------------------------------------- state
VARIABLES
    orderbook,   \* main.rs: the OrderBook behind Arc<Mutex<..>>
    book_lock,   \* who holds the Mutex of the book: "free" or "menu"
    menu_pc,     \* position of menu_interface
    menu_cmd,    \* the JSON payload being processed
    menu_upd,    \* the typed update that passed validation
    menu_out,    \* what the current command printed
    queue,       \* the unbounded channel of BinanceMessage
    ws,          \* binance_websocket_client: "connecting", "streaming", "failed", "closed"
    consumers,   \* the spawned process_binance_messages tasks
    last_call    \* the last direct call on the OrderBook and its result

vars == <<orderbook, book_lock, menu_pc, menu_cmd, menu_upd, menu_out,
          queue, ws, consumers, last_call>>

NoJson == [keys |-> {}]
NoUpdate == [kind |-> "none"]
NoOut == [kind |-> "none"]
NoCall == [op |-> "none"]

\* main.rs: the symbol is read, trimmed and upper-cased, the book is created,
\* the websocket client is spawned and the menu starts.
Init ==
    /\ \E input \in StartSymbols : orderbook = NewOrderBook(ToUppercase(input))
    /\ book_lock = "free"
    /\ menu_pc = "input"
    /\ menu_cmd = NoJson
    /\ menu_upd = NoUpdate
    /\ menu_out = NoOut
    /\ queue = <<>>
    /\ ws = "connecting"
    /\ consumers = <<>>
    /\ last_call = NoCall

\* The runtime is dropped when main returns: no task runs after Exit.
Running == menu_pc # "exited"

ingest_vars == <<queue, ws, consumers>>
menu_vars == <<book_lock, menu_pc, menu_cmd, menu_upd, menu_out>>

\* ------------------------------------------------------------- menu task
\* lock().await of tokio::sync::Mutex
LockFree == book_lock = "free"

\* MenuCommand::BestBidAsk (also the fallback of an invalid option).
MenuBestBidAsk ==
    /\ menu_pc = "input" /\ LockFree
    /\ menu_out' = [kind |-> "best", best |-> GetBestBidAsk(orderbook)]
    /\ menu_pc' = "sleep"
    /\ UNCHANGED <<orderbook, book_lock, menu_cmd, menu_upd, ingest_vars, last_call>>

\* MenuCommand::VolumeAtPrice(price)
MenuVolumeAtPrice(price) ==
    /\ menu_pc = "input" /\ LockFree
    /\ menu_out' = [kind |-> "volume", price |-> price,
                    volume |-> GetVolumeAtPrice(orderbook, price)]
    /\ menu_pc' = "sleep"
    /\ UNCHANGED <<orderbook, book_lock, menu_cmd, menu_upd, ingest_vars, last_call>>

\* JsonProcessing with the guard dropped at once: the arm runs unlocked.
MenuJsonProcessingUnlocked(json) ==
    /\ menu_pc = "input" /\ LockFree
    /\ menu_cmd' = json
    /\ menu_pc' = "json"
    /\ UNCHANGED <<orderbook, book_lock, menu_upd, menu_out, ingest_vars, last_call>>

\* MenuCommand::JsonProcessing(json_input): the book is locked for the arm.
MenuJsonProcessing(json) ==
    /\ menu_pc = "input" /\ LockFree
    /\ book_lock' = "menu"
    /\ menu_cmd' = json
    /\ menu_pc' = "json"
    /\ UNCHANGED <<orderbook, menu_upd, menu_out, ingest_vars, last_call>>

\* The ticker branch without its symbol check.
TickerChecksNoSymbol(book, reader) ==
    IF IsUpdateSequential(book, reader.u) # "Ok"
    THEN IsUpdateSequential(book, reader.u)
    ELSE TickerFromReader(reader).err

\* The checks of the ticker branch, in their order: symbol, sequence, numbers.
TickerChecks(book, reader) ==
    IF IsSymbolSame(book, reader.s) # "Ok" THEN IsSymbolSame(book, reader.s)
    ELSE IF IsUpdateSequential(book, reader.u) # "Ok"
         THEN IsUpdateSequential(book, reader.u)
    ELSE TickerFromReader(reader).err

\* The depth branch without its sequence check.
DepthChecksNone(book, reader) == "Ok"

\* The check of the depth branch: the sequence alone.
DepthChecks(book, reader) == IsUpdateSequential(book, reader.lastUpdateId)

\* if let Ok(ticker) .. else if let Ok(depth) .. else: the outcome of the
\* checks of the branch taken, "IncorrectJsonData" when neither shape parses.
JsonChecks(book, json) ==
    IF IsTickerJson(json) THEN TickerChecks(book, json)
    ELSE IF IsDepthJson(json) THEN DepthChecks(book, json)
    ELSE "IncorrectJsonData"

\* The two shapes tried in the other order: depth first.
JsonUpdateDepthFirst(json) ==
    IF IsDepthJson(json)
    THEN [kind |-> "depth", data |-> DepthFromReader(json)]
    ELSE [kind |-> "ticker", data |-> TickerFromReader(json).update]

\* The typed update handed to the book when the checks passed.
JsonUpdate(json) ==
    IF IsTickerJson(json)
    THEN [kind |-> "ticker", data |-> TickerFromReader(json).update]
    ELSE [kind |-> "depth", data |-> DepthFromReader(json)]

\* The rejection with nothing printed.
MenuJsonRejectSilent ==
    /\ menu_pc = "json"
    /\ JsonChecks(orderbook, menu_cmd) # "Ok"
    /\ book_lock' = "free"
    /\ menu_pc' = IF JsonChecks(orderbook, menu_cmd) = "IncorrectJsonData"
                  THEN "sleep" ELSE "continue"
    /\ UNCHANGED <<orderbook, menu_cmd, menu_upd, menu_out, ingest_vars, last_call>>

\* The rejection with the guard kept past the `continue`.
MenuJsonRejectKeepLock ==
    /\ menu_pc = "json"
    /\ JsonChecks(orderbook, menu_cmd) # "Ok"
    /\ menu_out' = [kind |-> "error", err |-> JsonChecks(orderbook, menu_cmd)]
    /\ menu_pc' = IF JsonChecks(orderbook, menu_cmd) = "IncorrectJsonData"
                  THEN "sleep" ELSE "continue"
    /\ UNCHANGED <<orderbook, book_lock, menu_cmd, menu_upd, ingest_vars, last_call>>

\* An error is printed; `continue` drops the guard and skips the sleep. The
\* else branch prints IncorrectJsonData and leaves the arm.
MenuJsonReject ==
    /\ menu_pc = "json"
    /\ JsonChecks(orderbook, menu_cmd) # "Ok"
    /\ menu_out' = [kind |-> "error", err |-> JsonChecks(orderbook, menu_cmd)]
    /\ book_lock' = "free"
    /\ menu_pc' = IF JsonChecks(orderbook, menu_cmd) = "IncorrectJsonData"
                  THEN "sleep" ELSE "continue"
    /\ UNCHANGED <<orderbook, menu_cmd, menu_upd, ingest_vars, last_call>>

\* All checks passed: the typed update is built.
MenuJsonAccept ==
    /\ menu_pc = "json"
    /\ JsonChecks(orderbook, menu_cmd) = "Ok"
    /\ menu_upd' = JsonUpdate(menu_cmd)
    /\ menu_pc' = "apply_id"
    /\ UNCHANGED <<orderbook, book_lock, menu_cmd, menu_out, ingest_vars, last_call>>

\* First statement of update_book_ticker / update_depth.
MenuApplyId ==
    /\ menu_pc = "apply_id"
    /\ orderbook' = SetLastUpdateId(orderbook, menu_upd.data.last_update_id)
    /\ menu_pc' = "apply_bids"
    /\ UNCHANGED <<book_lock, menu_cmd, menu_upd, menu_out, ingest_vars, last_call>>

\* The bid statement of update_book_ticker / the bid loop of update_depth.
MenuApplyBids ==
    /\ menu_pc = "apply_bids"
    /\ orderbook' =
         IF menu_upd.kind = "ticker"
         THEN [orderbook EXCEPT !.bids =
                 SetLevel(orderbook.bids, menu_upd.data.bid_price, menu_upd.data.bid_qty)]
         ELSE DepthBids(orderbook, menu_upd.data)
    /\ menu_pc' = "apply_asks"
    /\ UNCHANGED <<book_lock, menu_cmd, menu_upd, menu_out, ingest_vars, last_call>>

\* The ask statement of update_book_ticker / the ask loop of update_depth.
MenuApplyAsks ==
    /\ menu_pc = "apply_asks"
    /\ orderbook' =
         IF menu_upd.kind = "ticker"
         THEN [orderbook EXCEPT !.asks =
                 SetLevel(orderbook.asks, menu_upd.data.ask_price, menu_upd.data.ask_qty)]
         ELSE DepthAsks(orderbook, menu_upd.data)
    /\ menu_pc' = "display"
    /\ UNCHANGED <<book_lock, menu_cmd, menu_upd, menu_out, ingest_vars, last_call>>

\* display_best_bid_ask after the update; the guard is dropped with the arm.
MenuDisplay ==
    /\ menu_pc = "display"
    /\ menu_out' = [kind |-> "applied", best |-> GetBestBidAsk(orderbook)]
    /\ book_lock' = "free"
    /\ menu_pc' = "sleep"
    /\ UNCHANGED <<orderbook, menu_cmd, menu_upd, ingest_vars, last_call>>

\* sleep(1 s) and the next turn of the loop; `continue` comes here directly.
MenuSleep ==
    /\ menu_pc \in {"sleep", "continue"}
    /\ menu_pc' = "input"
    /\ menu_cmd' = NoJson
    /\ menu_upd' = NoUpdate
    /\ menu_out' = NoOut
    /\ UNCHANGED <<orderbook, book_lock, ingest_vars, last_call>>

\* MenuCommand::Exit
MenuExit ==
    /\ menu_pc = "input"
    /\ menu_pc' = "exited"
    /\ UNCHANGED <<orderbook, book_lock, menu_cmd, menu_upd, menu_out,
                   ingest_vars, last_call>>


\* WebSocketProcessing: a consumer task is spawned; process_binance_messages
\* creates its own OrderBook for "BNBUSDT".
MaxConsumers == 1

NewConsumer == [book |-> NewOrderBook("BNBUSDT"), status |-> "running"]

MenuWebSocketProcessing ==
    /\ menu_pc = "input"
    /\ Len(consumers) < MaxConsumers
    /\ consumers' = Append(consumers, NewConsumer)
    /\ menu_pc' = "sleep"
    /\ UNCHANGED <<orderbook, book_lock, menu_cmd, menu_upd, menu_out,
                   queue, ws, last_call>>

\* ------------------------------------------------------ websocket client
\* Longest queue the model lets build up (the channel is unbounded).
MaxQueue == 1

\* Text frames of the bookTicker stream of the subscribed symbol.
WsTickerTexts ==
    { TickerJson(u, s, t[1], t[2], t[3], t[4]) :
        u \in Ids, s \in {"BNBUSDT", "ETHUSDT"},
        t \in { <<"1", "1", "2", "1">>, <<"1", "x", "2", "1">> } }
    \cup { OtherJson }

\* The streams are those of the symbol given to binance_websocket_client.
OfSubscribedSymbol(text) == "s" \in text.keys => text.s = orderbook.symbol

\* Text frames of the depth20 stream of the subscribed symbol.
WsDepthTexts ==
    { DepthJson(u, d[1], d[2]) :
        u \in Ids,
        d \in { << << <<"1", "2">> >>, << <<"2", "1">> >> >>,
                << << <<"1", "1">>, <<"1", "0">> >>, <<>> >> } }
    \cup { OtherJson }

\* connect_async of both streams succeeded: the two reader tasks are spawned.
WsConnect ==
    /\ Running /\ ws = "connecting"
    /\ ws' = "streaming"
    /\ UNCHANGED <<orderbook, menu_vars, queue, consumers, last_call>>

\* The error of the client propagated out of main with `?`: the program ends.
WsConnectErrorFatal ==
    /\ Running /\ ws = "connecting"
    /\ ws' = "failed"
    /\ menu_pc' = "exited"
    /\ UNCHANGED <<orderbook, book_lock, menu_cmd, menu_upd, menu_out,
                   queue, consumers, last_call>>

\* connect_async failed: the client returns the error, which main prints.
WsConnectError ==
    /\ Running /\ ws = "connecting"
    /\ ws' = "failed"
    /\ UNCHANGED <<orderbook, menu_vars, queue, consumers, last_call>>

\* The connection is lost while streaming: the streams yield an error, which
\* the readers skip, and then end; `while let Some(msg)` leaves both loops.
WsStreamEnd ==
    /\ Running /\ ws = "streaming"
    /\ ws' = "closed"
    /\ UNCHANGED <<orderbook, menu_vars, queue, consumers, last_call>>

\* The bookTicker reader: a text frame that parses as a ticker is sent to the
\* queue, anything else is skipped.
TickerStreamRecv(text) ==
    /\ Running /\ ws = "streaming"
    /\ OfSubscribedSymbol(text)
    /\ Len(queue) < MaxQueue
    /\ queue' = IF IsTickerJson(text)
                THEN Append(queue, [kind |-> "BookTicker", update |-> text])
                ELSE queue
    /\ UNCHANGED <<orderbook, menu_vars, ws, consumers, last_call>>

\* The depth reader, likewise.
DepthStreamRecv(text) ==
    /\ Running /\ ws = "streaming"
    /\ OfSubscribedSymbol(text)
    /\ Len(queue) < MaxQueue
    /\ queue' = IF IsDepthJson(text)
                THEN Append(queue, [kind |-> "DepthUpdate", update |-> text])
                ELSE queue
    /\ UNCHANGED <<orderbook, menu_vars, ws, consumers, last_call>>

\* -------------------------------------------------------- queue consumer
\* s.parse().unwrap() succeeds on every string of the message.
AllParse(strs) == \A i \in 1..Len(strs) : StrParse(strs[i]).ok

LevelStrs(levels) ==
    [i \in 1..(2 * Len(levels)) |-> levels[(i + 1) \div 2][2 - (i % 2)]]

ConsumerParses(message) ==
    IF message.kind = "BookTicker"
    THEN AllParse(<<message.update.b, message.update.B,
                    message.update.a, message.update.A>>)
    ELSE AllParse(LevelStrs(message.update.bids))
         /\ AllParse(LevelStrs(message.update.asks))

\* The match of process_binance_messages on one message, all strings parsing.
\* The ticker record built there carries the four numbers and no update id;
\* the depth record carries lastUpdateId. Neither is checked before it is
\* applied.
ConsumerApply(book, message) ==
    IF message.kind = "BookTicker"
    THEN TickerLevels(book,
            NewBookTickerUpdate(book.last_update_id,
                StrParse(message.update.b).val, StrParse(message.update.B).val,
                StrParse(message.update.a).val, StrParse(message.update.A).val))
    ELSE UpdateDepth(book, DepthFromReader(message.update))

\* The channel delivering the head of the queue to every running consumer.
ConsumerStepBroadcast(c) ==
    /\ Running
    /\ c <= Len(consumers)
    /\ consumers[c].status = "running"
    /\ queue # <<>>
    /\ queue' = Tail(queue)
    /\ consumers' =
         [i \in 1..Len(consumers) |->
            IF consumers[i].status # "running" THEN consumers[i]
            ELSE IF ConsumerParses(Head(queue))
            THEN [consumers[i] EXCEPT !.book = ConsumerApply(consumers[i].book, Head(queue))]
            ELSE [consumers[i] EXCEPT !.status = "panicked"]]
    /\ UNCHANGED <<orderbook, menu_vars, ws, last_call>>

\* One turn of `while let Some(message) = rx.next().await`: the message is
\* taken from the queue and applied to the consumer's book; an unwrap on a
\* string that is no number panics and ends the task.
ConsumerStep(c) ==
    /\ Running
    /\ c <= Len(consumers)
    /\ consumers[c].status = "running"
    /\ queue # <<>>
    /\ queue' = Tail(queue)
    /\ consumers' =
         IF ConsumerParses(Head(queue))
         THEN [consumers EXCEPT ![c].book = ConsumerApply(consumers[c].book, Head(queue))]
         ELSE [consumers EXCEPT ![c].status = "panicked"]
    /\ UNCHANGED <<orderbook, menu_vars, ws, last_call>>

\* --------------------------------------------------------- specification
MenuNext ==
    \/ MenuBestBidAsk
    \/ \E price \in Prices : MenuVolumeAtPrice(price)
    \/ \E json \in JsonInputs : MenuJsonProcessing(json)
    \/ MenuJsonReject
    \/ MenuJsonAccept
    \/ MenuApplyId
    \/ MenuApplyBids
    \/ MenuApplyAsks
    \/ MenuDisplay
    \/ MenuWebSocketProcessing
    \/ MenuSleep
    \/ MenuExit

IngestNext ==
    \/ WsConnect
    \/ WsConnectError
    \/ WsStreamEnd
    \/ \E text \in WsTickerTexts : TickerStreamRecv(text)
    \/ \E text \in WsDepthTexts : DepthStreamRecv(text)
    \/ \E c \in 1..MaxConsumers : ConsumerStep(c)

Next == MenuNext \/ IngestNext

Spec == Init /\ [][Next]_vars

\* The steps menu_interface takes by itself once a command has been read:
\* between two reads of input it awaits nothing but the sleep of one second.
MenuProgress ==
    \/ MenuJsonReject
    \/ MenuJsonAccept
    \/ MenuApplyId
    \/ MenuApplyBids
    \/ MenuApplyAsks
    \/ MenuDisplay
    \/ MenuSleep

\* The program started for "bnbusdt", the symbol of the unit tests and of the
\* consumer's book.
InitBnb == Init /\ orderbook.symbol = "BNBUSDT"

\* The program with the menu task scheduled: the runtime keeps polling a task
\* that can run, the user may stop typing at any time.
SpecLive == InitBnb /\ [][Next]_vars /\ WF_vars(MenuProgress)


\* ------------------------------------------ several consumers, one queue
\* Most consumer tasks spawned when WebSocketProcessing is selected again.
MaxDrainers == 2

\* WebSocketProcessing selected once more: every selection spawns a task.
MenuWebSocketProcessingAgain ==
    /\ menu_pc = "input"
    /\ Len(consumers) < MaxDrainers
    /\ consumers' = Append(consumers, NewConsumer)
    /\ menu_pc' = "sleep"
    /\ UNCHANGED <<orderbook, book_lock, menu_cmd, menu_upd, menu_out,
                   queue, ws, last_call>>

\* The ingestion side alone: the user only selects WebSocketProcessing.
DrainNext ==
    \/ MenuWebSocketProcessingAgain
    \/ MenuSleep
    \/ WsConnect
    \/ WsStreamEnd
    \/ \E text \in WsTickerTexts : TickerStreamRecv(text)
    \/ \E text \in WsDepthTexts : DepthStreamRecv(text)
    \/ \E c \in 1..MaxDrainers : ConsumerStep(c)

SpecDrain == InitBnb /\ [][DrainNext]_vars

\* ------------------------------------------------- direct calls (tests.rs)
\* The OrderBook driven method by method, as the unit tests drive it.
Levels == Prices \X Qtys

SeqsOf(S, n) == UNION { [1..k -> S] : k \in 0..n }

TickerUpdates ==
    { NewBookTickerUpdate(id, bp, bq, ap, aq) :
        id \in Ids, bp \in Prices, bq \in Qtys, ap \in Prices, aq \in Qtys }

DepthBatches ==
    { d \in SeqsOf(Levels, MaxLevels) \X SeqsOf(Levels, MaxLevels) :
        Len(d[1]) + Len(d[2]) <= MaxLevels }

DepthUpdates == { NewDepthUpdate(id, d[1], d[2]) : id \in Ids, d \in DepthBatches }

CallUpdateBookTicker(data) ==
    /\ orderbook' = UpdateBookTicker(orderbook, data)
    /\ last_call' = [op |-> "update_book_ticker", data |-> data]
    /\ UNCHANGED <<menu_vars, ingest_vars>>

CallUpdateDepth(data) ==
    /\ orderbook' = UpdateDepth(orderbook, data)
    /\ last_call' = [op |-> "update_depth", data |-> data]
    /\ UNCHANGED <<menu_vars, ingest_vars>>

CallGetBestBidAsk ==
    /\ last_call' = [op |-> "get_best_bid_ask", result |-> GetBestBidAsk(orderbook)]
    /\ UNCHANGED <<orderbook, menu_vars, ingest_vars>>

CallGetVolumeAtPrice(price) ==
    /\ last_call' = [op |-> "get_volume_at_price", price |-> price,
                     result |-> GetVolumeAtPrice(orderbook, price)]
    /\ UNCHANGED <<orderbook, menu_vars, ingest_vars>>

CallIsSymbolSame(symbol) ==
    /\ last_call' = [op |-> "is_symbol_same", symbol |-> symbol,
                     result |-> IsSymbolSame(orderbook, symbol)]
    /\ UNCHANGED <<orderbook, menu_vars, ingest_vars>>

CallIsUpdateSequential(id) ==
    /\ last_call' = [op |-> "is_update_sequential", id |-> id,
                     result |-> IsUpdateSequential(orderbook, id)]
    /\ UNCHANGED <<orderbook, menu_vars, ingest_vars>>

BookNext ==
    \/ \E data \in TickerUpdates : CallUpdateBookTicker(data)
    \/ \E data \in DepthUpdates : CallUpdateDepth(data)
    \/ CallGetBestBidAsk
    \/ \E price \in Prices \cup {0} : CallGetVolumeAtPrice(price)
    \/ \E symbol \in WireSymbols : CallIsSymbolSame(symbol)
    \/ \E id \in Ids : CallIsUpdateSequential(id)

\* [price, qty] string pairs of a depth payload, numbers or not.
PairStrs == {"1", "x"} \X {"1", "x"}

\* Depth payloads as read from the wire, of at most MaxLevels pairs.
DepthReaders ==
    { DepthJson(id, d[1], d[2]) :
        id \in Ids,
        d \in { e \in SeqsOf(PairStrs, MaxLevels) \X SeqsOf(PairStrs, MaxLevels) :
                  Len(e[1]) + Len(e[2]) <= MaxLevels } }

\* DepthUpdate::from_reader(reader) followed by update_depth, as in the depth
\* branch of the menu.
CallDepthFromReader(reader) ==
    /\ orderbook' = UpdateDepth(orderbook, DepthFromReader(reader))
    /\ last_call' = [op |-> "depth_from_reader", reader |-> reader,
                     data |-> DepthFromReader(reader)]
    /\ UNCHANGED <<menu_vars, ingest_vars>>

ReaderNext ==
    \/ \E reader \in DepthReaders : CallDepthFromReader(reader)
    \/ \E price \in Prices \cup {0} : CallGetVolumeAtPrice(price)

\* tests.rs: let mut orderbook = OrderBook::new("BNBUSDT".to_string());
InitBook ==
    /\ orderbook = NewOrderBook("BNBUSDT")
    /\ book_lock = "free"
    /\ menu_pc = "input"
    /\ menu_cmd = NoJson
    /\ menu_upd = NoUpdate
    /\ menu_out = NoOut
    /\ queue = <<>>
    /\ ws = "connecting"
    /\ consumers = <<>>
    /\ last_call = NoCall

SpecBook == InitBook /\ [][BookNext]_vars

SpecReader == InitBook /\ [][ReaderNext]_vars


\* ================================================================ claims
\* The update id a payload carries: u of a ticker, lastUpdateId of a depth.
JsonId(json) == IF IsTickerJson(json) THEN json.u ELSE json.lastUpdateId

IsUpdateJson(json) == IsTickerJson(json) \/ IsDepthJson(json)

\* Every OrderBook of the program: the shared one and each consumer's own.
BookIds(bk, cs) ==
    <<bk.last_update_id>> \o [c \in 1..Len(cs) |-> cs[c].book.last_update_id]

\* C1: on every OrderBook, last_update_id never decreases from one state to
\* the next, whatever the tasks do with it.
C1_LastUpdateIdNeverDecreases ==
    [][\A i \in 1..Len(BookIds(orderbook, consumers)) :
          BookIds(orderbook', consumers')[i] >= BookIds(orderbook, consumers)[i]]_vars

\* The payload being processed fails validation against the book: a ticker for
\* another symbol, or an update whose id is not greater than last_update_id.
FailsValidation(book, json) ==
    \/ IsTickerJson(json) /\ (json.s # book.symbol \/ json.u <= book.last_update_id)
    \/ ~IsTickerJson(json) /\ IsDepthJson(json)
       /\ json.lastUpdateId <= book.last_update_id

\* C2: an update that fails validation (symbol mismatch or id not greater than
\* last_update_id) ends its handler with an error and with bids, asks and
\* last_update_id as they were; it never reaches the statements that write.
C2_RejectedUpdateChangesNothing ==
    [][(menu_pc = "json" /\ FailsValidation(orderbook, menu_cmd))
        => /\ orderbook' = orderbook
           /\ menu_pc' \in {"json", "continue"}
           /\ (menu_pc' = "continue"
                 => menu_out'.kind = "error"
                    /\ menu_out'.err \in {"DifferentSymbol", "UpdateIdOutdated"})]_vars

\* A stale depth update carrying levels the book does not hold was rejected.
C2_Witness ==
    /\ menu_pc = "continue"
    /\ menu_out.kind = "error" /\ menu_out.err = "UpdateIdOutdated"
    /\ IsDepthJson(menu_cmd) /\ ~IsTickerJson(menu_cmd)
    /\ menu_cmd.bids # <<>>
    /\ UpdateDepth(orderbook, DepthFromReader(menu_cmd)).bids # orderbook.bids

InCriticalSection ==
    menu_pc \in {"json", "apply_id", "apply_bids", "apply_asks", "display"}

C4_SameUpdateAppliedAtMostOnce ==
    [][/\ \A c \in 1..Len(consumers) :
            (queue # <<>> /\ queue' = Tail(queue)
               /\ JsonId(Head(queue).update) = orderbook.last_update_id
               /\ orderbook.last_update_id > 0)
            => consumers'[c].book = consumers[c].book
       /\ \A c \in 1..Len(consumers) :
            (menu_pc = "json" /\ IsUpdateJson(menu_cmd)
               /\ JsonId(menu_cmd) = consumers[c].book.last_update_id
               /\ consumers[c].book.last_update_id > 0)
            => menu_pc' # "apply_id"]_vars


PositiveLevels(m) == \A p \in DOMAIN m : m[p] > 0

\* C5 (invariant I1): in every state reached from a new book by calls of
\* update_book_ticker and update_depth, with quantities that may be zero or
\* negative, every price present in bids or asks has a quantity > 0.
C5_PresentLevelsArePositive ==
    PositiveLevels(orderbook.bids) /\ PositiveLevels(orderbook.asks)

\* A ticker with a negative bid quantity and a zero ask quantity was applied
\* to a book that still holds levels on both sides.
C5_Witness ==
    /\ last_call.op = "update_book_ticker"
    /\ last_call.data.bid_qty < 0 /\ last_call.data.ask_qty = 0
    /\ DOMAIN orderbook.bids # {} /\ DOMAIN orderbook.asks # {}

\* C6: is_update_sequential(id) returns Ok exactly when id > last_update_id
\* and leaves the book as it is; an id equal to last_update_id is stale, and
\* id 0 is never accepted.
C6_SequentialIffGreater ==
    /\ [](last_call.op = "is_update_sequential"
            => /\ (last_call.result = "Ok") <=> (last_call.id > orderbook.last_update_id)
               /\ last_call.result \in {"Ok", "UpdateIdOutdated"}
               /\ (last_call.id = 0 => last_call.result = "UpdateIdOutdated"))
    /\ [][last_call'.op = "is_update_sequential" => orderbook' = orderbook]_vars

\* The id that was just applied is offered again and found stale.
C6_Witness ==
    /\ last_call.op = "is_update_sequential"
    /\ last_call.id = orderbook.last_update_id /\ last_call.id > 0
    /\ last_call.result = "UpdateIdOutdated"

\* C7: is_symbol_same(candidate) returns Ok exactly when candidate is the
\* book's symbol, letter for letter, and DifferentSymbol otherwise; the call
\* changes nothing and no call ever changes the symbol.
C7_SymbolSameIffEqual ==
    /\ [](last_call.op = "is_symbol_same"
            => /\ (last_call.result = "Ok") <=> (last_call.symbol = orderbook.symbol)
               /\ last_call.result \in {"Ok", "DifferentSymbol"})
    /\ [][/\ orderbook'.symbol = orderbook.symbol
          /\ (last_call'.op = "is_symbol_same" => orderbook' = orderbook)]_vars

\* The lower-case spelling of the book's symbol is refused on a book that
\* has already taken updates.
C7_Witness ==
    /\ last_call.op = "is_symbol_same"
    /\ last_call.symbol = "bnbusdt" /\ orderbook.symbol = "BNBUSDT"
    /\ last_call.result = "DifferentSymbol"
    /\ orderbook.last_update_id > 0 /\ DOMAIN orderbook.bids # {}


\* C8: every update that goes on to mutate the book, ticker or depth, passed
\* the symbol check first: an update naming another symbol than the book's is
\* never applied.
C8_OnlySameSymbolApplied ==
    [][orderbook' # orderbook
        => ("s" \in menu_cmd.keys => menu_cmd.s = orderbook.symbol)]_vars

\* The payload being processed is a well-formed update for the book's symbol
\* with an id greater than last_update_id.
ValidUpdate(book, json) ==
    \/ /\ IsTickerJson(json)
       /\ json.s = book.symbol /\ json.u > book.last_update_id
       /\ \A f \in {json.b, json.B, json.a, json.A} : StrParse(f).ok
    \/ /\ ~IsTickerJson(json) /\ IsDepthJson(json)
       /\ json.lastUpdateId > book.last_update_id

\* C9: a ticker or depth update with the book's symbol and an id greater than
\* last_update_id is accepted, and once it is applied last_update_id is its
\* id, also when it writes no level.
C9_AcceptedUpdateSetsLastUpdateId ==
    /\ [](menu_pc \in {"apply_bids", "apply_asks", "display"}
            => orderbook.last_update_id = JsonId(menu_cmd))
    /\ [](menu_out.kind = "applied" => orderbook.last_update_id = JsonId(menu_cmd))
    /\ [][(menu_pc = "json" /\ ValidUpdate(orderbook, menu_cmd))
            => menu_pc' \in {"json", "apply_id"}]_vars

\* After an update that wrote a bid, an empty depth batch with the next id
\* was accepted and applied.
C9_Witness ==
    /\ menu_out.kind = "applied"
    /\ IsDepthJson(menu_cmd) /\ ~IsTickerJson(menu_cmd)
    /\ menu_cmd.bids = <<>> /\ menu_cmd.asks = <<>>
    /\ orderbook.last_update_id = MaxId
    /\ DOMAIN orderbook.bids # {}

\* C10: an update whose id is not greater than last_update_id, whatever
\* levels it carries, is dropped: its handler ends with bids, asks and
\* last_update_id as the earlier application left them.
C10_StaleUpdateIsDropped ==
    /\ [][(menu_pc = "json" /\ IsUpdateJson(menu_cmd)
             /\ JsonId(menu_cmd) <= orderbook.last_update_id /\ menu_pc' # "json")
            => /\ orderbook' = orderbook
               /\ menu_pc' = "continue"
               /\ book_lock' = "free"]_vars
    /\ [](menu_pc = "continue" /\ menu_out.err = "UpdateIdOutdated"
            => JsonId(menu_cmd) <= orderbook.last_update_id)

\* The id just applied is submitted again, now with levels that would change
\* the book, and is found outdated.
C10_Witness ==
    /\ menu_pc = "continue" /\ menu_out.err = "UpdateIdOutdated"
    /\ JsonId(menu_cmd) = orderbook.last_update_id
    /\ IsTickerJson(menu_cmd)
    /\ TickerFromReader(menu_cmd).ok
    /\ TickerLevels(orderbook, TickerFromReader(menu_cmd).update) # orderbook

\* A step that is the direct call `op` on the book.
IsCall(op) == last_call'.op = op /\ last_call' # last_call

\* C11: get_best_bid_ask returns None exactly when bids or asks is empty;
\* otherwise the bid it returns is a level of bids that no bid exceeds in
\* price, the ask a level of asks that no ask undercuts, each with the stored
\* quantity; the call leaves the book as it was.
C11_BestBidAskIsMaxBidMinAsk ==
    [][IsCall("get_best_bid_ask") =>
        LET r == last_call'.result IN
        /\ orderbook' = orderbook
        /\ ~r.some <=> (DOMAIN orderbook.bids = {} \/ DOMAIN orderbook.asks = {})
        /\ r.some =>
             /\ r.bid[1] \in DOMAIN orderbook.bids
             /\ \A p \in DOMAIN orderbook.bids : p <= r.bid[1]
             /\ r.bid[2] = orderbook.bids[r.bid[1]]
             /\ r.ask[1] \in DOMAIN orderbook.asks
             /\ \A p \in DOMAIN orderbook.asks : r.ask[1] <= p
             /\ r.ask[2] = orderbook.asks[r.ask[1]]]_vars

\* The call answered on a book with two bid levels and two ask levels.
C11_Witness ==
    /\ last_call.op = "get_best_bid_ask"
    /\ last_call.result.some
    /\ Cardinality(DOMAIN orderbook.bids) = 2
    /\ Cardinality(DOMAIN orderbook.asks) = 2
    /\ last_call.result.bid[1] = 2 /\ last_call.result.ask[1] = 1

\* C12: get_volume_at_price(p) returns the bid quantity at p when p is a bid
\* level (also when p is an ask level too), else the ask quantity at p when p
\* is an ask level, else 0; the call leaves the book as it was.
C12_VolumeAtPriceBidsThenAsks ==
    [][IsCall("get_volume_at_price") =>
        LET p == last_call'.price
            r == last_call'.result IN
        /\ orderbook' = orderbook
        /\ p \in DOMAIN orderbook.bids => r = orderbook.bids[p]
        /\ (p \notin DOMAIN orderbook.bids /\ p \in DOMAIN orderbook.asks)
              => r = orderbook.asks[p]
        /\ (p \notin DOMAIN orderbook.bids /\ p \notin DOMAIN orderbook.asks)
              => r = 0]_vars

\* The call answered for a price that is a bid and an ask level with
\* different quantities.
C12_Witness ==
    /\ last_call.op = "get_volume_at_price"
    /\ last_call.price \in DOMAIN orderbook.bids \cap DOMAIN orderbook.asks
    /\ orderbook.bids[last_call.price] # orderbook.asks[last_call.price]
    /\ last_call.result = orderbook.bids[last_call.price]

\* The levels of m at prices other than `price` are those of n.
SameExceptAt(m, n, price) ==
    \A p \in ((DOMAIN m) \cup (DOMAIN n)) \ {price} :
        p \in DOMAIN m /\ p \in DOMAIN n /\ m[p] = n[p]

\* The level of m at `price` is qty when qty > 0, and there is none otherwise.
LevelIs(m, price, qty) ==
    IF qty > 0 THEN price \in DOMAIN m /\ m[price] = qty ELSE price \notin DOMAIN m

\* C13: update_book_ticker changes at most the bid level at bid_price and the
\* ask level at ask_price: the bid at bid_price becomes bid_qty when
\* bid_qty > 0 and is absent otherwise, likewise the ask; all other bid
\* levels, all other ask levels and the symbol stay as they were.
C13_TickerWritesOneLevelPerSide ==
    [][IsCall("update_book_ticker") =>
        LET d == last_call'.data IN
        /\ orderbook'.symbol = orderbook.symbol
        /\ LevelIs(orderbook'.bids, d.bid_price, d.bid_qty)
        /\ LevelIs(orderbook'.asks, d.ask_price, d.ask_qty)
        /\ SameExceptAt(orderbook'.bids, orderbook.bids, d.bid_price)
        /\ SameExceptAt(orderbook'.asks, orderbook.asks, d.ask_price)]_vars

\* A ticker was applied that wrote one bid level and removed one ask level
\* while each side holds a level at another price.
C13_Witness ==
    /\ last_call.op = "update_book_ticker"
    /\ last_call.data.bid_qty > 0 /\ last_call.data.ask_qty <= 0
    /\ \E p \in DOMAIN orderbook.bids : p # last_call.data.bid_price
    /\ \E p \in DOMAIN orderbook.asks : p # last_call.data.ask_price

\* The price occurs in the batch.
Occurs(levels, price) == \E i \in 1..Len(levels) : levels[i][1] = price

\* The quantity of the last entry of the batch at the price.
LastQty(levels, price) ==
    levels[MaxOf({ i \in 1..Len(levels) : levels[i][1] = price })][2]

\* The batch leaves the price with a positive quantity.
WritesPositive(levels, price) ==
    Occurs(levels, price) /\ LastQty(levels, price) > 0

\* update_depth on one side: every price of the batch has the quantity of its
\* last entry when that is > 0 and is absent otherwise; every other price
\* keeps its entry.
SideAfterBatch(after, before, levels) ==
    \A p \in (DOMAIN after) \cup (DOMAIN before) \cup { levels[i][1] : i \in 1..Len(levels) } :
        IF Occurs(levels, p)
        THEN LevelIs(after, p, LastQty(levels, p))
        ELSE p \in DOMAIN after /\ p \in DOMAIN before /\ after[p] = before[p]

\* C14 as stated: after update_depth each side is its previous map overwritten
\* by its own batch, last entry of a price winning and a quantity of 0
\* removing the level, and get_volume_at_price returns, for every price
\* written with a positive quantity on exactly one side, that quantity.
C14_DepthReadBackOnEitherSide ==
    [][IsCall("update_depth") =>
        LET d == last_call'.data IN
        /\ SideAfterBatch(orderbook'.bids, orderbook.bids, d.bids)
        /\ SideAfterBatch(orderbook'.asks, orderbook.asks, d.asks)
        /\ \A p \in Prices :
             /\ (WritesPositive(d.bids, p) /\ ~WritesPositive(d.asks, p))
                  => GetVolumeAtPrice(orderbook', p) = LastQty(d.bids, p)
             /\ (WritesPositive(d.asks, p) /\ ~WritesPositive(d.bids, p))
                  => GetVolumeAtPrice(orderbook', p) = LastQty(d.asks, p)]_vars

\* C14 amended: the same, the read back holding for a price written with a
\* positive quantity on the bid side, and for one written with a positive
\* quantity on the ask side when the price is no bid level after the update.
C14_DepthLastWriteWins ==
    [][IsCall("update_depth") =>
        LET d == last_call'.data IN
        /\ SideAfterBatch(orderbook'.bids, orderbook.bids, d.bids)
        /\ SideAfterBatch(orderbook'.asks, orderbook.asks, d.asks)
        /\ \A p \in Prices :
             /\ WritesPositive(d.bids, p)
                  => GetVolumeAtPrice(orderbook', p) = LastQty(d.bids, p)
             /\ (WritesPositive(d.asks, p) /\ p \notin DOMAIN orderbook'.bids)
                  => GetVolumeAtPrice(orderbook', p) = LastQty(d.asks, p)]_vars

\* A depth update was applied whose bid batch names one price twice, first
\* with a positive quantity and last with 0, so that the level is absent,
\* while the bid side keeps a level at another price.
C14_Witness ==
    /\ last_call.op = "update_depth"
    /\ Len(last_call.data.bids) = 2
    /\ last_call.data.bids[1][1] = last_call.data.bids[2][1]
    /\ last_call.data.bids[1][2] > 0 /\ last_call.data.bids[2][2] = 0
    /\ last_call.data.bids[1][1] \notin DOMAIN orderbook.bids
    /\ DOMAIN orderbook.bids # {}
    /\ DOMAIN orderbook.asks # {}

\* C15 (scenario A): a ticker with bid_qty > 0 and ask_qty > 0 applied to a
\* newly constructed book makes get_best_bid_ask return
\* ((bid_price, bid_qty), (ask_price, ask_qty)) of that ticker.
C15_TickerOnNewBookIsBest ==
    [][(/\ IsCall("update_book_ticker")
        /\ orderbook = NewOrderBook(orderbook.symbol)
        /\ last_call'.data.bid_qty > 0
        /\ last_call'.data.ask_qty > 0)
       => GetBestBidAsk(orderbook') =
            [some |-> TRUE,
             bid |-> <<last_call'.data.bid_price, last_call'.data.bid_qty>>,
             ask |-> <<last_call'.data.ask_price, last_call'.data.ask_qty>>]]_vars

\* The state one ticker call away from the new book: the ticker's bid at 1
\* and its ask at 2 are the only levels.
C15_Witness ==
    /\ last_call.op = "update_book_ticker"
    /\ last_call.data.bid_qty > 0 /\ last_call.data.ask_qty > 0
    /\ last_call.data.bid_price = 1 /\ last_call.data.ask_price = 2
    /\ orderbook.bids = MapInsert(EmptyMap, 1, last_call.data.bid_qty)
    /\ orderbook.asks = MapInsert(EmptyMap, 2, last_call.data.ask_qty)
    /\ last_call.data.bid_qty # last_call.data.ask_qty

\* A ticker payload one of whose four numeric strings is no number.
UnparsableTicker(json) ==
    /\ IsTickerJson(json)
    /\ \E f \in {json.b, json.B, json.a, json.A} : ~StrParse(f).ok

\* A ticker payload with the book's symbol, the given id and four numbers.
WellFormedTickers(book, id) ==
    { j \in JsonInputs :
        /\ IsTickerJson(j) /\ j.s = book.symbol /\ j.u = id
        /\ \A f \in {j.b, j.B, j.a, j.A} : StrParse(f).ok }

\* C16: a ticker update with a numeric field that does not parse is rejected
\* before any mutation: it is never handed to the book, bids, asks and
\* last_update_id stay as they were, the error reported for one that passed
\* the symbol and sequence checks is ParseError, and a well-formed ticker
\* with the same id is accepted afterwards.
C16_UnparsableTickerRejected ==
    [][(menu_pc = "json" /\ UnparsableTicker(menu_cmd)) =>
        /\ orderbook' = orderbook
        /\ menu_pc' \in {"json", "continue"}
        /\ menu_pc' = "continue" =>
             /\ menu_out'.kind = "error" /\ book_lock' = "free"
             /\ (/\ IsSymbolSame(orderbook, menu_cmd.s) = "Ok"
                 /\ IsUpdateSequential(orderbook, menu_cmd.u) = "Ok")
                => /\ menu_out'.err = "ParseError"
                   /\ WellFormedTickers(orderbook', menu_cmd.u) # {}
                   /\ \A j \in WellFormedTickers(orderbook', menu_cmd.u) :
                        JsonChecks(orderbook', j) = "Ok"]_vars

\* A ParseError was reported for a ticker with the book's symbol and a fresh
\* id, on a book that earlier updates have filled.
C16_Witness ==
    /\ menu_pc = "continue"
    /\ menu_out.kind = "error" /\ menu_out.err = "ParseError"
    /\ UnparsableTicker(menu_cmd)
    /\ menu_cmd.u > orderbook.last_update_id
    /\ orderbook.last_update_id > 0
    /\ DOMAIN orderbook.bids # {}

\* C17: a payload that has neither the ticker nor the depth shape is rejected
\* and reported as IncorrectJsonData, and bids, asks and last_update_id stay
\* as they were; such a payload is never put on the queue either.
C17_MalformedPayloadRejected ==
    [][/\ (menu_pc = "json" /\ ~IsUpdateJson(menu_cmd)) =>
            /\ orderbook' = orderbook
            /\ menu_pc' \in {"json", "sleep"}
            /\ menu_pc' = "sleep" =>
                 /\ menu_out' = [kind |-> "error", err |-> "IncorrectJsonData"]
                 /\ book_lock' = "free"
       /\ \A i \in 1..Len(queue') : IsUpdateJson(queue'[i].update)]_vars

\* IncorrectJsonData was reported for a payload of neither shape, entered on
\* a book that holds levels.
C17_Witness ==
    /\ menu_pc = "sleep"
    /\ ~IsUpdateJson(menu_cmd) /\ menu_cmd # NoJson
    /\ menu_out = [kind |-> "error", err |-> "IncorrectJsonData"]
    /\ book_lock = "free"
    /\ DOMAIN orderbook.bids # {} /\ orderbook.last_update_id > 0

\* C18: whatever the outcome of processing one message (accepted, symbol
\* mismatch, stale id, parse error, malformed), the handler ends with the book
\* lock free and the loop back at its head, where the lock is always free, so
\* that no command waits for it; a rejection does not end the task; and an
\* update with the book's symbol and a greater id entered next is accepted
\* and applied.
C18_RejectionReleasesBook ==
    /\ (menu_pc = "json" \/ book_lock = "menu")
          ~> (menu_pc = "input" /\ book_lock = "free")
    /\ [](menu_pc \in {"input", "sleep", "continue"} => book_lock = "free")
    /\ [][menu_pc = "json" => menu_pc' # "exited"]_vars
    /\ (menu_pc = "json" /\ ValidUpdate(orderbook, menu_cmd))
          ~> (menu_out.kind = "applied" /\ orderbook.last_update_id = JsonId(menu_cmd))

\* A ticker of another symbol was rejected while a consumer task runs: the
\* lock is free and the loop goes on.
C18_Witness ==
    /\ menu_pc = "continue" /\ book_lock = "free"
    /\ menu_out.kind = "error" /\ menu_out.err = "DifferentSymbol"
    /\ Len(consumers) = 1 /\ queue # <<>>
    /\ orderbook.last_update_id > 0

\* C19: there is one OrderBook, shared by the queue consumer and the menu:
\* whenever a consumer applies an update, the book it wrote is the book the
\* menu's get_best_bid_ask and get_volume_at_price read, symbol included.
C19_ConsumerWritesSharedBook ==
    [][\A c \in 1..Len(consumers) :
          consumers'[c].book # consumers[c].book
            => orderbook' = consumers'[c].book]_vars

\* The price levels of a book.
LevelsOf(book) == <<book.bids, book.asks>>

\* C20: ticker and depth updates pass one last_update_id gate: on each book
\* the updates that change it carry strictly increasing ids, and once an
\* update with id n > 0 has been applied to a book, no update of either kind
\* with an id <= n, however the two streams were interleaved into the queue,
\* changes its bids or asks.
C20_StaleUpdatesNeverMutate ==
    [][/\ orderbook' # orderbook =>
            /\ orderbook'.last_update_id = JsonId(menu_cmd)
            /\ orderbook'.last_update_id # orderbook.last_update_id
                 => orderbook'.last_update_id > orderbook.last_update_id
       /\ \A c \in 1..Len(consumers) :
            (/\ consumers[c].book.last_update_id > 0
             /\ queue # <<>> /\ queue' = Tail(queue)
             /\ JsonId(Head(queue).update) <= consumers[c].book.last_update_id)
            => LevelsOf(consumers'[c].book) = LevelsOf(consumers[c].book)]_vars

\* The websocket client has ended with a connection failure.
WsDown == ws \in {"failed", "closed"}

\* C21: a connection failure of the websocket client ends that task only: the
\* step leaves bids, asks and last_update_id of every book, and the menu
\* task, as they were; afterwards the menu still answers both queries at the
\* loop head and still accepts a valid manually entered update.
C21_ConnectionFailureEndsOnlyClient ==
    /\ [][(WsDown' /\ ~WsDown) =>
            /\ orderbook' = orderbook /\ consumers' = consumers
            /\ menu_pc' = menu_pc /\ book_lock' = book_lock]_vars
    /\ [][WsDown => WsDown' /\ Len(queue') <= Len(queue)]_vars
    /\ [](WsDown /\ menu_pc = "input" =>
            /\ ENABLED MenuBestBidAsk
            /\ \A price \in Prices : ENABLED MenuVolumeAtPrice(price)
            /\ \A json \in JsonInputs : ENABLED MenuJsonProcessing(json))
    /\ [][(WsDown /\ menu_pc = "json" /\ ValidUpdate(orderbook, menu_cmd))
            => menu_pc' \in {"json", "apply_id"}]_vars

\* The stream broke off after the consumer had applied an update; the shared
\* book holds the levels of an update entered by hand, which the menu has
\* just applied.
C21_Witness ==
    /\ ws = "closed"
    /\ Len(consumers) = 1 /\ DOMAIN consumers[1].book.bids # {}
    /\ menu_out.kind = "applied"
    /\ DOMAIN orderbook.bids # {} /\ orderbook.last_update_id > 0

\* C22: the queue consumer mutates its book with a dequeued message only if
\* the message passed validation at that moment: a ticker names the book's
\* symbol, and the id of the message is greater than last_update_id.
C22_ConsumerValidatesBeforeApply ==
    [][\A c \in 1..Len(consumers) :
          consumers'[c].book # consumers[c].book =>
            /\ queue # <<>>
            /\ Head(queue).kind = "BookTicker"
                 => Head(queue).update.s = consumers[c].book.symbol
            /\ JsonId(Head(queue).update) > consumers[c].book.last_update_id]_vars

\* C23: no record, queued or entered by hand, ends the task that handles it:
\* a consumer never panics, the menu loop leaves every handler for its next
\* turn, and a ticker with a string that is no number is answered with an
\* error value.
C23_BadInputNeverTerminates ==
    /\ [](\A c \in 1..Len(consumers) : consumers[c].status = "running")
    /\ [][menu_pc = "json" => menu_pc' # "exited"]_vars
    /\ [][(menu_pc = "json" /\ UnparsableTicker(menu_cmd) /\ menu_pc' # menu_pc)
            => menu_out'.kind = "error"]_vars

\* The consumers whose record a step changes.
ChangedConsumers ==
    { c \in 1..Len(consumers) : consumers'[c] # consumers[c] }

NumberOrZero(str) == IF StrParse(str).ok THEN StrParse(str).val ELSE 0

\* The typed batch has a pair for every pair of strings, in the same order,
\* each component its number or 0.
NormalisedFrom(levels, strs) ==
    /\ Len(levels) = Len(strs)
    /\ \A i \in 1..Len(strs) :
         levels[i] = <<NumberOrZero(strs[i][1]), NumberOrZero(strs[i][2])>>

\* Pair i is the last pair of the batch for its price.
LastForPrice(levels, i) ==
    \A j \in (i + 1)..Len(levels) : levels[j][1] # levels[i][1]

\* What the pairs with a string that is no number do to one side of the book.
UnparsablePairsApplied(after, levels, strs) ==
    \A i \in 1..Len(strs) :
        LastForPrice(levels, i) =>
            /\ ~StrParse(strs[i][2]).ok => levels[i][1] \notin DOMAIN after
            /\ (~StrParse(strs[i][1]).ok /\ NumberOrZero(strs[i][2]) > 0)
                 => (0 \in DOMAIN after /\ after[0] = NumberOrZero(strs[i][2]))

\* C25: the depth conversion never aborts a batch: a price or quantity string
\* that is no number becomes 0 and every pair of the batch is kept, in
\* order; applied, a pair with an unparsable quantity removes the level at
\* its price and a pair with an unparsable price is applied to price 0.
C25_DepthDefaultsToZero ==
    [][IsCall("depth_from_reader") =>
        LET r == last_call'.reader
            d == last_call'.data IN
        /\ d.last_update_id = r.lastUpdateId
        /\ NormalisedFrom(d.bids, r.bids)
        /\ NormalisedFrom(d.asks, r.asks)
        /\ SideAfterBatch(orderbook'.bids, orderbook.bids, d.bids)
        /\ SideAfterBatch(orderbook'.asks, orderbook.asks, d.asks)
        /\ UnparsablePairsApplied(orderbook'.bids, d.bids, r.bids)
        /\ UnparsablePairsApplied(orderbook'.asks, d.asks, r.asks)]_vars

\* A batch was applied whose first bid pair has no price and whose second has
\* no quantity: there is a bid at price 0 and none at price 1, while the ask
\* side holds a level from an earlier batch.
C25_Witness ==
    /\ last_call.op = "depth_from_reader"
    /\ last_call.reader.bids = << <<"x", "1">>, <<"1", "x">> >>
    /\ 0 \in DOMAIN orderbook.bids /\ 1 \notin DOMAIN orderbook.bids
    /\ DOMAIN orderbook.asks # {}

\* C26: a payload is tried as a ticker first and as a depth update only when
\* it is no ticker, and is handled as one variant: a payload that parses as
\* a ticker is either rejected by the ticker's checks, and then not applied
\* as a depth update, or applied as a ticker, writing no level but the
\* ticker's bid and ask; the update handed to the book is a depth update only
\* for a payload that is no ticker.
C26_TickerShapeTriedFirst ==
    /\ [][(menu_pc = "json" /\ IsTickerJson(menu_cmd) /\ menu_pc' # menu_pc) =>
            \/ /\ menu_pc' = "continue" /\ orderbook' = orderbook
               /\ menu_out'.kind = "error"
               /\ menu_out'.err \in {"DifferentSymbol", "UpdateIdOutdated", "ParseError"}
               /\ menu_upd' = NoUpdate
            \/ /\ menu_pc' = "apply_id"
               /\ menu_upd'.kind = "ticker"]_vars
    /\ [](menu_upd.kind = "depth" => (~IsTickerJson(menu_cmd) /\ IsDepthJson(menu_cmd)))
    /\ [][(IsTickerJson(menu_cmd) /\ orderbook' # orderbook) =>
            /\ SameExceptAt(orderbook'.bids, orderbook.bids, NumberOrZero(menu_cmd.b))
            /\ SameExceptAt(orderbook'.asks, orderbook.asks, NumberOrZero(menu_cmd.a))]_vars

\* A payload of both shapes, whose depth part would have passed the sequence
\* check, was rejected as a ticker of another symbol and dropped.
C26_Witness ==
    /\ menu_pc = "continue"
    /\ IsTickerJson(menu_cmd) /\ IsDepthJson(menu_cmd)
    /\ menu_out.kind = "error" /\ menu_out.err = "DifferentSymbol"
    /\ menu_cmd.lastUpdateId > orderbook.last_update_id
    /\ 2 \notin DOMAIN orderbook.bids /\ DOMAIN orderbook.bids # {}

\* C27: a ticker evicts no other level: after a ticker with bid_qty > 0 and
\* ask_qty > 0 is applied to any book, get_best_bid_ask returns a bid price
\* >= the ticker's bid price and an ask price <= the ticker's ask price; the
\* best bid is the ticker's bid exactly when no bid was stored above its
\* price, the best ask the ticker's ask exactly when no ask was stored below.
C27_TickerNeverEvictsBetterLevels ==
    [][(/\ IsCall("update_book_ticker")
        /\ last_call'.data.bid_qty > 0
        /\ last_call'.data.ask_qty > 0) =>
        LET d == last_call'.data
            r == GetBestBidAsk(orderbook') IN
        /\ r.some
        /\ r.bid[1] >= d.bid_price
        /\ r.ask[1] <= d.ask_price
        /\ r.bid = <<d.bid_price, d.bid_qty>>
             <=> ~(\E p \in DOMAIN orderbook.bids : p > d.bid_price)
        /\ r.ask = <<d.ask_price, d.ask_qty>>
             <=> ~(\E p \in DOMAIN orderbook.asks : p < d.ask_price)
        /\ \A p \in DOMAIN orderbook.bids : p > d.bid_price =>
             (p \in DOMAIN orderbook'.bids /\ orderbook'.bids[p] = orderbook.bids[p])
        /\ \A p \in DOMAIN orderbook.asks : p < d.ask_price =>
             (p \in DOMAIN orderbook'.asks /\ orderbook'.asks[p] = orderbook.asks[p])]_vars

\* A ticker with bid 1 and ask 2 was applied to a book that keeps a bid at 2
\* and an ask at 1: the best bid is above the ticker's bid, the best ask
\* below its ask, and the book is crossed.
C27_Witness ==
    /\ last_call.op = "update_book_ticker"
    /\ last_call.data.bid_qty > 0 /\ last_call.data.ask_qty > 0
    /\ last_call.data.bid_price = 1 /\ last_call.data.ask_price = 2
    /\ GetBestBidAsk(orderbook).some
    /\ GetBestBidAsk(orderbook).bid[1] = 2
    /\ GetBestBidAsk(orderbook).ask[1] = 1

====
